---- MODULE Spec2Model ----
(***************************************************************************)
(* The "show" pipeline of projects/DensePose/apply_net_cust.py:            *)
(* InferenceAction.execute iterating a file list, and for each file        *)
(* ShowAction.execute_on_outputs (label remapping, colorizing, canvas      *)
(* compositing, array dumps) followed by ShowAction.generate_bitmaps       *)
(* (five bitmaps, each handed to an autotrace process by Popen).           *)
(*                                                                         *)
(* An array is a record [h, w, px]: px is the row-major sequence of its    *)
(* h*w pixels (a label, an intensity or a BGR triple).                     *)
(***************************************************************************)
EXTENDS Integers, Sequences, FiniteSets, TLC

VARIABLES
    file_list,    \* InferenceAction.execute: the input files, in order
    outputs,      \* what predictor + extractor yield for each file of file_list
    idx,          \* number of files the for loop has taken so far
    pc,           \* position of the main thread
    loc,          \* locals of execute_on_outputs / generate_bitmaps; the name I
                  \* is kept for the label array, colored is I once colorized
    fs,           \* files on disk: each path written -> what was last written there
    results_dir,  \* whether /content/results exists
    entry_idx,    \* context["entry_idx"]
    procs,        \* autotrace processes launched by Popen and still running
    t             \* state of the single-function specifications

vars == <<file_list, outputs, idx, pc, loc, fs, results_dir, entry_idx, procs, t>>

pipe_vars == <<file_list, outputs, idx, pc, loc, fs, results_dir, entry_idx, procs>>

(***************************************************************************)
(* Bounds of the model.                                                    *)
(***************************************************************************)
\* longest file list
MaxBatch == 2
\* largest number of pixels of an array in the single-function specifications
MaxPix == 2
\* largest height / width of a source image, and of a bounding box
MaxDim == 2
\* colormaps of the family repeat with a period of at most MaxMod
MaxMod == 3

(***************************************************************************)
(* Program constants.                                                      *)
(***************************************************************************)
\* the largest label the pose model emits (25 classes, 0 is background)
MaxRawLabel == 24
\* np.uint8
Uint8Range == 256
\* 10.625 = ScaleNum / ScaleDen
ScaleNum == 85
ScaleDen == 8
\* double_image
scale_percent == 200

RawLabels == 0..MaxRawLabel

Min(a, b) == IF a < b THEN a ELSE b
Max(a, b) == IF a < b THEN b ELSE a

EmptyArr == [h |-> 0, w |-> 0, px |-> <<>>]

ConstArr(h, w, v) == [h |-> h, w |-> w, px |-> [i \in 1..(h * w) |-> v]]

\* the pixel of array a at row r, column c (both from 0)
At(a, r, c) == a.px[r * a.w + c + 1]

MapPx(a, F(_)) == [a EXCEPT !.px = [i \in DOMAIN a.px |-> F(a.px[i])]]

(***************************************************************************)
(* LabelRemapper: I[I == from] = to, ten times, in place.                  *)
(***************************************************************************)
Replace(a, from, to) ==
    [a EXCEPT !.px = [i \in DOMAIN a.px |-> IF a.px[i] = from THEN to ELSE a.px[i]]]

\* variant: the last replacement (24 -> 23) is missing
ReplacementsWithoutHead ==
    << <<2, 1>>, <<17, 15>>, <<18, 16>>, <<7, 9>>, <<8, 10>>,
       <<11, 13>>, <<12, 14>>, <<19, 21>>, <<20, 22>> >>

\* variant: the first replacement is written the wrong way round (1 -> 2)
ReplacementsSwapped ==
    << <<1, 2>>, <<17, 15>>, <<18, 16>>, <<7, 9>>, <<8, 10>>,
       <<11, 13>>, <<12, 14>>, <<19, 21>>, <<20, 22>>, <<24, 23>> >>

\* the ten replacements, in the order of the code
Replacements ==
    << <<2, 1>>, <<17, 15>>, <<18, 16>>, <<7, 9>>, <<8, 10>>,
       <<11, 13>>, <<12, 14>>, <<19, 21>>, <<20, 22>>, <<24, 23>> >>

RECURSIVE ApplyReplacements(_, _)
ApplyReplacements(a, n) ==
    IF n = 0 THEN a
    ELSE Replace(ApplyReplacements(a, n - 1), Replacements[n][1], Replacements[n][2])

\* what the ten replacements make of a one-pixel array holding v, for every
\* uint8 value v
RemapPixel ==
    [v \in 0..(Uint8Range - 1) |->
        ApplyReplacements(ConstArr(1, 1, v), Len(Replacements)).px[1]]

\* the ten replacements on an array: they act on each pixel by itself
Remap(a) == MapPx(a, LAMBDA v : RemapPixel[v])

\* I.astype(np.uint8) of an integer array: the value modulo 256
AsUint8(a) == MapPx(a, LAMBDA v : v % Uint8Range)

(***************************************************************************)
(* Colorizer: scale, colormap lookup, background correction.               *)
(***************************************************************************)
White == <<255, 255, 255>>

\* what the float32 -> uint8 conversion of an out-of-range product yields
\* depends on the build: the low byte, or the saturated value
CastModes == {"wrap", "saturate"}

\* (I.astype(np.float32) * 10.625).astype(np.uint8) for one pixel
ScalePixel(v, mode) ==
    LET q == (v * ScaleNum) \div ScaleDen
    IN  IF q < Uint8Range THEN q
        ELSE IF mode = "wrap" THEN q % Uint8Range ELSE Uint8Range - 1

ScaleLabels(a, mode) == MapPx(a, LAMBDA v : ScalePixel(v, mode))

\* A fixed colormap is a table from the 256 intensities to BGR triples. The
\* family: a table of period c.m whose entry c.white is white (c.white = c.m:
\* no entry is white). Period 256 is an injective table.
Colormaps ==
    {c \in [m : 1..MaxMod, white : 0..MaxMod] : c.white <= c.m}
        \cup {[m |-> Uint8Range, white |-> Uint8Range]}

\* the colormap the pipeline runs with: an injective table without white
COLORMAP_PARULA == [m |-> Uint8Range, white |-> Uint8Range]

Cmap(c, i) ==
    IF i % c.m = c.white THEN White ELSE <<i % c.m, 0, (Uint8Range - 1) - (i % c.m)>>

\* cv2.applyColorMap(I, CMAP)
applyColorMap(a, c) == MapPx(a, LAMBDA i : Cmap(c, i))

\* variant: np.any in place of np.all, one equal channel suffices
BackgroundCorrectAny(a, c) ==
    LET bg == Cmap(c, 0)
    IN  MapPx(a, LAMBDA p : IF \E ch \in 1..3 : p[ch] = bg[ch] THEN White ELSE p)

\* bg = applyColorMap([[[0,0,0]]])[0][0]; I[np.all(I == bg, axis=-1)] = white
BackgroundCorrect(a, c) ==
    LET bg == Cmap(c, 0)
    IN  MapPx(a, LAMBDA p : IF p = bg THEN White ELSE p)

Colorize(a, c, mode) == BackgroundCorrect(applyColorMap(ScaleLabels(a, mode), c), c)

(***************************************************************************)
(* Canvas Compositor: image_target_bgr[y:y+h, x:x+w] = I.                  *)
(***************************************************************************)
\* a slice bound as Python normalises it against an axis of length n
SliceBound(b, n) == IF b < 0 THEN Max(b + n, 0) ELSE Min(b, n)

\* the indices start:stop selects on an axis of length n: first index, count
Slice(start, stop, n) ==
    LET lo == SliceBound(start, n)
        hi == SliceBound(stop, n)
    IN  [lo |-> lo, len |-> Max(hi - lo, 0)]

\* numpy broadcasts a value axis onto a target axis of equal length, or from 1
Broadcastable(ih, iw, rh, rw) == (ih = rh \/ ih = 1) /\ (iw = rw \/ iw = 1)

\* variant: np.zeros in place of np.full(..., 255)
ZeroCanvas(shape) == ConstArr(shape[1], shape[2], <<0, 0, 0>>)

\* np.full(image.shape, 255, dtype=np.uint8)
FullCanvas(shape) == ConstArr(shape[1], shape[2], White)

\* canvas[y:y+h, x:x+w] = I: ok is FALSE when numpy raises ValueError
AssignRegion(canvas, bbox, I) ==
    LET x == bbox[1]
        y == bbox[2]
        w == bbox[3]
        h == bbox[4]
        rows == Slice(y, y + h, canvas.h)
        cols == Slice(x, x + w, canvas.w)
        ok == Broadcastable(I.h, I.w, rows.len, cols.len)
        Px(i) ==
            LET r == (i - 1) \div canvas.w
                c == (i - 1) % canvas.w
            IN  IF /\ r >= rows.lo /\ r < rows.lo + rows.len
                   /\ c >= cols.lo /\ c < cols.lo + cols.len
                THEN At(I, IF I.h = 1 THEN 0 ELSE r - rows.lo,
                           IF I.w = 1 THEN 0 ELSE c - cols.lo)
                ELSE canvas.px[i]
    IN  [ok |-> ok,
         img |-> IF ok THEN [canvas EXCEPT !.px = [i \in DOMAIN canvas.px |-> Px(i)]]
                 ELSE canvas]

(***************************************************************************)
(* Files, paths and the inputs of the pipeline.                            *)
(***************************************************************************)
\* input files: two of them differ in their extension only
FileNames ==
    {[stem |-> "a", ext |-> "png"], [stem |-> "a", ext |-> "jpg"],
     [stem |-> "b", ext |-> "png"]}

\* os.path.splitext(os.path.split(image_fpath)[1])[0]
Stem(f) == f.stem

\* "/content/" + name + "." + ext
FixedPath(name, ext) == [stem |-> "", name |-> name, ext |-> ext]

\* "/content/" + prefix + name + "." + ext, prefix = "/results/" + stem + "_"
PrefixPath(stem, name, ext) == [stem |-> stem, name |-> name, ext |-> ext]

\* the bitmaps of generate_bitmaps, in the order it emits them
ArtifactOrder == <<"blank", "image", "image_bw", "blank_outline", "solid_outline">>

Artifacts == {ArtifactOrder[i] : i \in DOMAIN ArtifactOrder}

Paths ==
    {FixedPath("output_orig", "npy"), FixedPath("output_outline", "npy"),
     FixedPath("mytest", "jpg")}
        \cup {PrefixPath(Stem(f), "output", "npy") : f \in FileNames}
        \cup {PrefixPath(Stem(f), a, "bmp") : f \in FileNames, a \in Artifacts}

NoFile == [img |-> 0, h |-> 0, w |-> 0, data |-> <<>>]

\* what is at path p of the file system f
FileAt(f, p) == IF p \in DOMAIN f THEN f[p] ELSE NoFile

\* the file system f once rec is written at path p
Written(f, p, rec) == [q \in DOMAIN f \cup {p} |-> IF q = p THEN rec ELSE f[q]]

NoFiles == [p \in {} |-> NoFile]

\* an array written by the pipeline while it processes file number i
FileOf(i, a) == [img |-> i, h |-> a.h, w |-> a.w, data |-> a.px]

\* labels the pose model can be imagined to emit: background, parts that are
\* folded, and values outside 0..24 (one below 256, one that wraps onto 2)
SampleLabels == {0, 2, 18, 25, 258}

NoDetection(shape) ==
    [detected |-> FALSE, labels |-> EmptyArr, bbox |-> <<0, 0, 0, 0>>, shape |-> shape]

\* a detection: the labels come resampled to the size of the bounding box
Detection(shape, x, y, w, h, v) ==
    [detected |-> TRUE, labels |-> ConstArr(h, w, v), bbox |-> <<x, y, w, h>>,
     shape |-> shape]

\* what one file can yield in the single-image specification
ImageOutputs ==
    {NoDetection(<<MaxDim, MaxDim>>)}
        \cup {Detection(<<MaxDim, MaxDim>>, x, y, w, h, v) :
                x \in (0 - 1)..MaxDim, y \in (0 - 1)..MaxDim,
                w \in 1..MaxDim, h \in 1..MaxDim, v \in SampleLabels}

\* what one file can yield in the batch specification: no detection, a
\* detection inside the image, a detection whose box leaves the image
BatchOutputs ==
    {NoDetection(<<MaxDim, MaxDim>>),
     Detection(<<MaxDim, MaxDim>>, 0, 0, 1, 1, 2),
     Detection(<<MaxDim, MaxDim>>, MaxDim - 1, 0, 2, 1, 2)}

\* sequences of distinct members of S, of length 1..n
DistinctSeqs(S, n) ==
    UNION {{q \in [1..k -> S] : \A i, j \in 1..k : i # j => q[i] # q[j]} : k \in 1..n}

NoLoc ==
    [I |-> EmptyArr, colored |-> EmptyArr, output_orig |-> EmptyArr, outline |-> EmptyArr,
     bbox |-> <<0, 0, 0, 0>>, shape |-> <<0, 0>>, canvas |-> EmptyArr,
     bufs |-> [a \in Artifacts |-> [h |-> 0, w |-> 0]], art |-> 0]

NoT == [k |-> 0]

\* x, y, w, h lies within an image of the given shape (rows, columns)
BboxFits(bbox, shape) ==
    /\ bbox[1] >= 0 /\ bbox[2] >= 0 /\ bbox[3] > 0 /\ bbox[4] > 0
    /\ bbox[1] + bbox[3] <= shape[2]
    /\ bbox[2] + bbox[4] <= shape[1]

(***************************************************************************)
(* generate_vector, double_image and the buffers of generate_bitmaps.      *)
(***************************************************************************)
\* exit statuses of an autotrace process
ExitCodes == {0, 1}

\* variant: the main thread waits for the processes it launched
WaitedAll(ps) == ps

\* the processes the main thread waits for before its next statement:
\* subprocess.Popen returns at once and nothing calls wait()
Waited(ps) == {}

\* the process generate_vector(file_in, file_out) starts while file number i
\* is processed; file_out is file_in with the extension svg
Launched(i, a, file_in) ==
    [img |-> i, art |-> a, in |-> file_in, out |-> [file_in EXCEPT !.ext = "svg"]]

\* cv2.resize(image, (int(w * 200 / 100), int(h * 200 / 100)))
double_image(b) ==
    [h |-> (b.h * scale_percent) \div 100, w |-> (b.w * scale_percent) \div 100]

\* the buffers when generate_bitmaps starts: image is the colorized array,
\* blank, blank_outline and solid_outline are np.zeros(image.shape)
InitialBufs(I) ==
    [a \in Artifacts |->
        IF a = "image_bw" THEN [h |-> 0, w |-> 0] ELSE [h |-> I.h, w |-> I.w]]

\* variant: the gray image is doubled once more
PrepareBufGrayDoubled(bufs, a) ==
    IF a = "image_bw" THEN [bufs EXCEPT !["image_bw"] = double_image(bufs["image"])]
    ELSE [bufs EXCEPT ![a] = double_image(bufs[a])]

\* what precedes cv2.imwrite for artifact a: the gray image is converted from
\* the (already doubled) color image, every other buffer is doubled
PrepareBuf(bufs, a) ==
    IF a = "image_bw" THEN [bufs EXCEPT !["image_bw"] = bufs["image"]]
    ELSE [bufs EXCEPT ![a] = double_image(bufs[a])]

(***************************************************************************)
(* The main thread: InferenceAction.execute and what it calls.             *)
(***************************************************************************)
Terminated == pc \in {"done", "aborted"}

\* the main thread is at position p and free to run its next statement
AtPc(p) == pc = p /\ Waited(procs) = {}

\* for file_name in file_list: read_image, predictor, execute_on_outputs;
\* after the last file, postexecute
ForLoop ==
    /\ AtPc("loop")
    /\ IF idx < Len(file_list)
       THEN idx' = idx + 1 /\ pc' = "mkdir"
       ELSE idx' = idx /\ pc' = "done"
    /\ loc' = NoLoc
    /\ UNCHANGED <<file_list, outputs, fs, results_dir, entry_idx, procs, t>>

\* prefix; os.mkdir("/content/results") when absent
Mkdir ==
    /\ AtPc("mkdir")
    /\ results_dir' = TRUE
    /\ pc' = "extract"
    /\ UNCHANGED <<file_list, outputs, idx, loc, fs, entry_idx, procs, t>>

\* image, data = extractor(outputs), bbox, I = labels.astype(np.uint8);
\* without a detection data[0] holds nothing to take them from: an exception
Extract ==
    /\ AtPc("extract")
    /\ LET o == outputs[idx]
       IN  IF o.detected
           THEN /\ loc' = [NoLoc EXCEPT !.shape = o.shape, !.bbox = o.bbox,
                                        !.I = AsUint8(o.labels)]
                /\ pc' = "remap"
           ELSE /\ pc' = "aborted"
                /\ UNCHANGED loc
    /\ UNCHANGED <<file_list, outputs, idx, fs, results_dir, entry_idx, procs, t>>

RemapLabels ==
    /\ AtPc("remap")
    /\ loc' = [loc EXCEPT !.I = Remap(loc.I)]
    /\ pc' = "save_orig"
    /\ UNCHANGED <<file_list, outputs, idx, fs, results_dir, entry_idx, procs, t>>

\* output_orig = np.copy(I); np.save("/content/output_orig.npy", output_orig)
SaveOrig ==
    /\ AtPc("save_orig")
    /\ loc' = [loc EXCEPT !.output_orig = loc.I]
    /\ fs' = Written(fs, FixedPath("output_orig", "npy"),
                        FileOf(idx, loc.I))
    /\ pc' = "save_outline"
    /\ UNCHANGED <<file_list, outputs, idx, results_dir, entry_idx, procs, t>>

\* outline = np.copy(I); outline[outline > 0] = 1; np.save(...)
SaveOutline ==
    /\ AtPc("save_outline")
    /\ LET outline == MapPx(loc.I, LAMBDA v : IF v > 0 THEN 1 ELSE v)
       IN  /\ loc' = [loc EXCEPT !.outline = outline]
           /\ fs' = Written(fs, FixedPath("output_outline", "npy"),
                        FileOf(idx, outline))
    /\ pc' = "colorize"
    /\ UNCHANGED <<file_list, outputs, idx, results_dir, entry_idx, procs, t>>

\* I * 10.625 as uint8, applyColorMap, the background made white
ColorizeStep ==
    /\ AtPc("colorize")
    /\ \E mode \in CastModes : loc' = [loc EXCEPT !.colored = Colorize(loc.I, COLORMAP_PARULA, mode)]
    /\ pc' = "composite"
    /\ UNCHANGED <<file_list, outputs, idx, fs, results_dir, entry_idx, procs, t>>

\* image_target_bgr = np.full(...); image_target_bgr[y:y+h, x:x+w] = I
CompositeStep ==
    /\ AtPc("composite")
    /\ LET r == AssignRegion(FullCanvas(loc.shape), loc.bbox, loc.colored)
       IN  IF r.ok
           THEN loc' = [loc EXCEPT !.canvas = r.img] /\ pc' = "save_output"
           ELSE pc' = "aborted" /\ UNCHANGED loc
    /\ UNCHANGED <<file_list, outputs, idx, fs, results_dir, entry_idx, procs, t>>

\* np.save("/content/" + prefix + "output.npy", I)
SaveOutput ==
    /\ AtPc("save_output")
    /\ fs' = Written(fs, PrefixPath(Stem(file_list[idx]), "output", "npy"),
                        FileOf(idx, loc.colored))
    /\ pc' = "write_mytest"
    /\ UNCHANGED <<file_list, outputs, idx, loc, results_dir, entry_idx, procs, t>>

\* cv2.imwrite("/content/results/mytest.jpg", image_target_bgr)
WriteComposite ==
    /\ AtPc("write_mytest")
    /\ fs' = Written(fs, FixedPath("mytest", "jpg"),
                        FileOf(idx, loc.canvas))
    /\ pc' = "draw_parts"
    /\ UNCHANGED <<file_list, outputs, idx, loc, results_dir, entry_idx, procs, t>>

\* generate_bitmaps: the three zero buffers and the contours of labels 1..23
DrawParts ==
    /\ AtPc("draw_parts")
    /\ loc' = [loc EXCEPT !.bufs = InitialBufs(loc.colored), !.art = 1]
    /\ pc' = "prepare"
    /\ UNCHANGED <<file_list, outputs, idx, fs, results_dir, entry_idx, procs, t>>

PrepareBitmap ==
    /\ AtPc("prepare")
    /\ loc' = [loc EXCEPT !.bufs = PrepareBuf(loc.bufs, ArtifactOrder[loc.art])]
    /\ pc' = "write"
    /\ UNCHANGED <<file_list, outputs, idx, fs, results_dir, entry_idx, procs, t>>

\* cv2.imwrite("/content/" + prefix + a + ".bmp", buffer)
WriteBitmap ==
    /\ AtPc("write")
    /\ LET a == ArtifactOrder[loc.art]
       IN  fs' = Written(fs, PrefixPath(Stem(file_list[idx]), a, "bmp"),
                        [img |-> idx, h |-> loc.bufs[a].h, w |-> loc.bufs[a].w, data |-> <<>>])
    /\ pc' = "launch"
    /\ UNCHANGED <<file_list, outputs, idx, loc, results_dir, entry_idx, procs, t>>

\* cls.generate_vector(bitmap path, svg path)
LaunchVector ==
    /\ AtPc("launch")
    /\ LET a == ArtifactOrder[loc.art]
       IN  procs' = procs \cup {Launched(idx, a, PrefixPath(Stem(file_list[idx]), a, "bmp"))}
    /\ IF loc.art < Len(ArtifactOrder)
       THEN loc' = [loc EXCEPT !.art = loc.art + 1] /\ pc' = "prepare"
       ELSE loc' = loc /\ pc' = "incr"
    /\ UNCHANGED <<file_list, outputs, idx, fs, results_dir, entry_idx, t>>

\* context["entry_idx"] += 1, and back to the for loop
Return ==
    /\ AtPc("incr")
    /\ entry_idx' = entry_idx + 1
    /\ pc' = "loop"
    /\ UNCHANGED <<file_list, outputs, idx, loc, fs, results_dir, procs, t>>

\* an autotrace process ends, with whatever status; nothing holds its handle
ProcExit ==
    /\ \E p \in procs, status \in ExitCodes : procs' = procs \ {p}
    /\ UNCHANGED <<file_list, outputs, idx, pc, loc, fs, results_dir, entry_idx, t>>

MainThread ==
    \/ ForLoop \/ Mkdir \/ Extract \/ RemapLabels \/ SaveOrig \/ SaveOutline
    \/ ColorizeStep \/ CompositeStep \/ SaveOutput \/ WriteComposite
    \/ DrawParts \/ PrepareBitmap \/ WriteBitmap \/ LaunchVector \/ Return

Next == MainThread \/ ProcExit

InitPipeline ==
    /\ idx = 0
    /\ pc = "loop"
    /\ loc = NoLoc
    /\ fs = NoFiles
    /\ results_dir = FALSE
    /\ entry_idx = 0
    /\ procs = {}
    /\ t = NoT

\* a batch: up to MaxBatch distinct files
Init ==
    /\ file_list \in DistinctSeqs(FileNames, MaxBatch)
    /\ outputs \in [1..Len(file_list) -> BatchOutputs]
    /\ InitPipeline

Spec == Init /\ [][Next]_vars

\* one file, with every detection the bounds allow
InitImage ==
    /\ file_list \in DistinctSeqs(FileNames, 1)
    /\ outputs \in [1..Len(file_list) -> ImageOutputs]
    /\ InitPipeline

SpecImage == InitImage /\ [][Next]_vars

\* the main thread is a running Python process: it takes its next statement
FairSpecImage == SpecImage /\ WF_vars(MainThread)

(***************************************************************************)
(* Single-function specifications: the main thread stays idle and t holds  *)
(* the function's input and what has been computed of it so far.           *)
(***************************************************************************)
InitIdle ==
    /\ file_list = <<>>
    /\ outputs = <<>>
    /\ idx = 0
    /\ pc = "idle"
    /\ loc = NoLoc
    /\ fs = NoFiles
    /\ results_dir = FALSE
    /\ entry_idx = 0
    /\ procs = {}

\* one-row arrays of 1..n pixels drawn from S
RowArrays(S, n) == UNION {{[h |-> 1, w |-> k, px |-> q] : q \in [1..k -> S]} : k \in 1..n}

\* LabelRemapper, one replacement per step, on every array of raw labels
InitRemap ==
    /\ InitIdle
    /\ t \in {[k |-> 0, raw |-> a, I |-> a] : a \in RowArrays(RawLabels, MaxPix)}

ReplaceStep ==
    /\ t.k < Len(Replacements)
    /\ t' = [t EXCEPT !.k = t.k + 1,
                      !.I = Replace(t.I, Replacements[t.k + 1][1], Replacements[t.k + 1][2])]
    /\ UNCHANGED pipe_vars

SpecRemap == InitRemap /\ [][ReplaceStep]_vars

\* Colorizer, on every merged array, under every colormap of the family
InitColor ==
    /\ InitIdle
    /\ t \in {[stage |-> "scale", labels |-> Remap(a), I |-> Remap(a), cm |-> c] :
                a \in RowArrays(RawLabels, MaxPix), c \in Colormaps}

\* I = I.astype(np.float32) * 10.625; I = I.astype(np.uint8)
ScaleStep ==
    /\ t.stage = "scale"
    /\ \E mode \in CastModes : t' = [t EXCEPT !.stage = "map", !.I = ScaleLabels(t.I, mode)]
    /\ UNCHANGED pipe_vars

MapStep ==
    /\ t.stage = "map"
    /\ t' = [t EXCEPT !.stage = "correct", !.I = applyColorMap(t.I, t.cm)]
    /\ UNCHANGED pipe_vars

CorrectStep ==
    /\ t.stage = "correct"
    /\ t' = [t EXCEPT !.stage = "done", !.I = BackgroundCorrect(t.I, t.cm)]
    /\ UNCHANGED pipe_vars

NextColor == ScaleStep \/ MapStep \/ CorrectStep

SpecColor == InitColor /\ [][NextColor]_vars

\* an h x w color array whose pixels all differ: pixel (r, c) is <<r, c, 0>>
PositionArr(h, w) ==
    [h |-> h, w |-> w, px |-> [i \in 1..(h * w) |-> <<(i - 1) \div w, (i - 1) % w, 0>>]]

\* Canvas Compositor, on every source shape, box and colorized shape
InitComposite ==
    /\ InitIdle
    /\ t \in {[stage |-> "alloc", shape |-> <<H, W>>, bbox |-> <<x, y, w, h>>,
               I |-> PositionArr(ih, iw), canvas |-> EmptyArr] :
                H \in 1..MaxDim, W \in 1..MaxDim,
                x \in (0 - 1)..MaxDim, y \in (0 - 1)..MaxDim,
                w \in 1..MaxDim, h \in 1..MaxDim,
                ih \in 1..MaxDim, iw \in 1..MaxDim}

AllocCanvas ==
    /\ t.stage = "alloc"
    /\ t' = [t EXCEPT !.stage = "assign", !.canvas = FullCanvas(t.shape)]
    /\ UNCHANGED pipe_vars

AssignStep ==
    /\ t.stage = "assign"
    /\ LET r == AssignRegion(t.canvas, t.bbox, t.I)
       IN  t' = [t EXCEPT !.stage = IF r.ok THEN "done" ELSE "error", !.canvas = r.img]
    /\ UNCHANGED pipe_vars

NextComposite == AllocCanvas \/ AssignStep

SpecComposite == InitComposite /\ [][NextComposite]_vars

(***************************************************************************)
(* Properties.                                                             *)
(***************************************************************************)
\* the symmetry table as the specification lists it
SymmetryTable(r) ==
    CASE r = 2 -> 1 [] r = 17 -> 15 [] r = 18 -> 16 [] r = 7 -> 9 [] r = 8 -> 10
      [] r = 11 -> 13 [] r = 12 -> 14 [] r = 19 -> 21 [] r = 20 -> 22 [] r = 24 -> 23
      [] OTHER -> r

\* the values the symmetry table takes on 0..24
MergedLabels == {0, 1, 3, 4, 5, 6, 9, 10, 13, 14, 15, 16, 21, 22, 23}

\* C1: for every raw label in 0..24 the ten in-place replacements, applied in
\* the order of the code, end at the symmetry table's image of that label, and
\* a replacement only ever rewrites a pixel that still holds its raw label (no
\* pixel is rewritten twice).
C1_SequentialIsLookup ==
    [][/\ \A i \in DOMAIN t.I.px :
            t'.I.px[i] # t.I.px[i] => t.I.px[i] = t.raw.px[i]
       /\ t'.k = Len(Replacements) =>
            \A i \in DOMAIN t.raw.px : t'.I.px[i] = SymmetryTable(t.raw.px[i])]_vars

\* C1 witness: all replacements are done on an array holding a folded label
\* (24, now 23) next to a label the table leaves alone
C1_Witness ==
    /\ t.k = Len(Replacements)
    /\ t.raw.px = <<24, 3>>
    /\ t.I.px = <<23, 3>>

\* C2: a label array holding a value outside 0..24 stops the processing of
\* its image at the extraction: the main thread never gets to remap, dump or
\* colorize it.
C2_InvalidLabelFailsFast ==
    (/\ idx >= 1
     /\ outputs[idx].detected
     /\ \E i \in DOMAIN outputs[idx].labels.px : outputs[idx].labels.px[i] \notin RawLabels)
        => pc \in {"mkdir", "extract", "aborted"}

\* C3: while an image whose bounding box does not fit its source image is
\* processed, no file is written for it.
C3_NoWriteWhenBboxOutside ==
    (/\ idx >= 1
     /\ outputs[idx].detected
     /\ ~BboxFits(outputs[idx].bbox, outputs[idx].shape))
        => \A p \in Paths : FileAt(fs, p).img # idx

\* C4: when the run has ended, every file of the list has been handed to
\* execute_on_outputs, whatever happened to the files before it.
C4_LaterImagesProcessed == Terminated => idx = Len(file_list)

\* C5: the main thread is never blocked: until the run has ended its next
\* statement can run, whichever launched processes are still running and
\* whichever have exited with whatever status; and the run does end, even
\* when no launched process ever terminates.
C5_NeverBlocks == [](Terminated \/ ENABLED MainThread) /\ <>Terminated

\* C5 witness: the run has completed its image while all five launched
\* processes are still running
C5_Witness ==
    /\ pc = "done"
    /\ entry_idx = 1
    /\ Cardinality(procs) = Len(ArtifactOrder)

\* C6: a process is launched only on a bitmap that the processing of the
\* current image has already written, with the svg path of the same name as
\* its output; and every bitmap written is the prepared buffer, twice as high
\* and twice as wide as the colorized part image.
C6_UpscaleWriteLaunch ==
    [][/\ \A p \in procs' \ procs :
            /\ FileAt(fs, p.in).img = idx
            /\ FileAt(fs, p.in).h = 2 * loc.colored.h
            /\ FileAt(fs, p.in).w = 2 * loc.colored.w
            /\ p.in.ext = "bmp"
            /\ p.out = [p.in EXCEPT !.ext = "svg"]
       /\ \A f \in Paths :
            (f.ext = "bmp" /\ FileAt(fs', f) # FileAt(fs, f)) =>
                /\ FileAt(fs', f).h = 2 * loc.colored.h
                /\ FileAt(fs', f).w = 2 * loc.colored.w
                /\ FileAt(fs', f).h = loc.bufs[f.name].h
                /\ FileAt(fs', f).w = loc.bufs[f.name].w]_vars

\* C6 witness: all five bitmaps of a 2 x 1 part image are written and launched
C6_Witness ==
    /\ pc = "incr"
    /\ loc.colored.h = 2
    /\ loc.colored.w = 1
    /\ \A a \in Artifacts :
        /\ FileAt(fs, PrefixPath(Stem(file_list[idx]), a, "bmp")) =
                [img |-> idx, h |-> 4, w |-> 2, data |-> <<>>]
        /\ \E p \in procs : p.art = a

\* C7: while a launched process is running nobody writes the bitmap it reads,
\* and no other process is launched on its bitmap or its svg file.
C7_NoSharedFiles ==
    [][\A p \in procs :
        /\ FileAt(fs', p.in) = FileAt(fs, p.in)
        /\ \A q \in procs' \ procs : q.in # p.in /\ q.out # p.out]_vars

C9_MergedWithin15 ==
    t.k = Len(Replacements) => \A i \in DOMAIN t.I.px : t.I.px[i] \in 0..15

\* C9, amended: every merged label lies in 0..23, and is one of the fifteen
\* values the symmetry table takes.
C9_MergedCodomain ==
    t.k = Len(Replacements) => \A i \in DOMAIN t.I.px : t.I.px[i] \in MergedLabels

\* C9 witness: a remapped array holding merged labels above 15
C9_Witness ==
    /\ t.k = Len(Replacements)
    /\ t.raw.px = <<18, 21>>
    /\ t.I.px = <<16, 21>>

\* C10: for a box inside the source image and a colorized image of the box's
\* size the assignment succeeds, the canvas has the source image's shape, the
\* pixels of the box are those of the colorized image at the same offset, and
\* every other pixel is white.
C10_CompositeOnWhiteCanvas ==
    (/\ t.stage \in {"done", "error"}
     /\ BboxFits(t.bbox, t.shape)
     /\ t.I.h = t.bbox[4]
     /\ t.I.w = t.bbox[3])
        => /\ t.stage = "done"
           /\ t.canvas.h = t.shape[1]
           /\ t.canvas.w = t.shape[2]
           /\ Len(t.canvas.px) = t.shape[1] * t.shape[2]
           /\ \A r \in 0..(t.shape[1] - 1), c \in 0..(t.shape[2] - 1) :
                IF /\ r >= t.bbox[2] /\ r < t.bbox[2] + t.bbox[4]
                   /\ c >= t.bbox[1] /\ c < t.bbox[1] + t.bbox[3]
                THEN At(t.canvas, r, c) = At(t.I, r - t.bbox[2], c - t.bbox[1])
                ELSE At(t.canvas, r, c) = White

\* C10 witness: a box smaller than the source image, away from its origin
C10_Witness ==
    /\ t.stage = "done"
    /\ BboxFits(t.bbox, t.shape)
    /\ t.I.h = t.bbox[4]
    /\ t.I.w = t.bbox[3]
    /\ t.bbox[1] > 0
    /\ t.bbox[4] < t.shape[1]
    /\ t.canvas.px # FullCanvas(t.shape).px

====
